---- MODULE Spec2Model ----
(***************************************************************************)
(* Model of the thumbnail resizer of lib/ThumbnailingBucket.resizer.ts:    *)
(* the S3-event handler (one action per resumption of the async function,  *)
(* i.e. per completed await), the key helper pathParts, the key decoding   *)
(* of the notification key, and the part of the ThumbnailingBucket         *)
(* construct that fixes the bucket names and DEST_BUCKET.                  *)
(*                                                                         *)
(* Keys are sequences of one-character strings.                            *)
(***************************************************************************)
EXTENDS Integers, Sequences, FiniteSets, TLC

VARIABLES
    event,        \* the S3Event handed to the handler: its Records
    sourceBucket, \* name of the bucket the notifications come from
    DEST_BUCKET,  \* process.env.DEST_BUCKET (Undefined when not set)
    pc,           \* position of the handler: which await it is suspended at
    i,            \* index (1-based) of the record of the for-of loop
    key,          \* const key   (line 27)
    obj,          \* const obj   (line 28), the Body of the fetched object
    base,         \* const base  (line 33)
    ext,          \* const ext   (line 33)
    list,         \* const list  (line 35)
    sz,           \* index into the size array of the inner loop (line 37)
    out,          \* const out   (line 38)
    error,        \* the rejection the handler's promise ended with
    trace,        \* history of the calls issued: getObject, resize, putObject
    destKey,      \* const destKey (line 42)
    s3store,      \* objects written: <<bucket, key>> -> object
    name,         \* input of pathParts (specification SpecPathParts)
    parts,        \* result of pathParts (specification SpecPathParts)
    srcObjects,   \* what is known of the source bucket's objects
    resources,    \* what the ThumbnailingBucket construct defined
    rawKey,       \* input of the key decoding (specification SpecDecodeKey)
    decoded,      \* result of the key decoding (specification SpecDecodeKey)
    parked,       \* a second invocation, suspended at one of its awaits
    previous,     \* how the previous delivery of the same batch ended
    platform      \* S3 and Lambda: objects created, events queued, counts

vars == <<event, sourceBucket, DEST_BUCKET, pc, i, key, obj, base, ext, list,
          sz, out, destKey, error, trace, s3store, name, parts,
          srcObjects, resources, rawKey, decoded, parked, previous, platform>>

\* what no step of a single invocation changes
auxVars == <<srcObjects, resources, rawKey, decoded, parked, previous, platform>>

handlerVars == <<event, sourceBucket, DEST_BUCKET, pc, i, key, obj, base, ext,
                 list, sz, out, destKey, error, trace, s3store>>

(***************************************************************************)
(* Bounds                                                                  *)
(***************************************************************************)
MaxRecords == 2      \* longest batch (event.Records) explored
MaxNameLen == 4      \* longest input of pathParts explored
MaxKeyLen == 4       \* longest raw key explored by SpecDecodeKey
MaxUploads == 2      \* most uploads to the source bucket explored by SpecPipeline

(***************************************************************************)
(* Characters and small helpers                                            *)
(***************************************************************************)
Undefined == "undefined"
NoError == "none"
None == <<>>

\* nothing uploaded, no event queued, no invocation yet
NoPlatform == [created |-> {}, queue |-> <<>>, queued |-> 0, invocations |-> 0, uploads |-> 0]

Max(S) == CHOOSE m \in S : \A n \in S : n <= m
Min(S) == CHOOSE m \in S : \A n \in S : m <= n

RECURSIVE SeqsUpTo(_, _)
SeqsUpTo(A, n) ==
    IF n = 0 THEN {<<>>}
    ELSE LET shorter == SeqsUpTo(A, n - 1)
         IN  shorter \cup {Append(s, c) : s \in {t \in shorter : Len(t) = n - 1}, c \in A}

(***************************************************************************)
(* pathParts (lines 7-15): /^(.+)\.(.+?)$/                                 *)
(* '.' of a JavaScript regular expression matches any character except a   *)
(* line terminator; the pattern is anchored at both ends and has no flags,  *)
(* so both groups together with the literal '.' cover the whole name.      *)
(***************************************************************************)
LineTerminators == {"\n", "\r"}

\* the positions p of a literal '.' for which (.+) can match name[1..p-1]
\* and (.+?) can match name[p+1..Len(name)]
SplitPoints(nm) ==
    {p \in 1..Len(nm) :
        /\ nm[p] = "."
        /\ p - 1 >= 1
        /\ Len(nm) - p >= 1
        /\ \A q \in (1..Len(nm)) \ {p} : nm[q] \notin LineTerminators}

\* a lazy first group would stop at the first candidate
pathParts_lazy(nm) ==
    IF SplitPoints(nm) = {} THEN <<nm, <<>>>>
    ELSE LET p == Min(SplitPoints(nm))
         IN  <<SubSeq(nm, 1, p - 1), SubSeq(nm, p + 1, Len(nm))>>

\* the first group is greedy: it backtracks from the longest base
pathParts(nm) ==
    IF SplitPoints(nm) = {} THEN <<nm, <<>>>>
    ELSE LET p == Max(SplitPoints(nm))
         IN  <<SubSeq(nm, 1, p - 1), SubSeq(nm, p + 1, Len(nm))>>

(***************************************************************************)
(* Key decoding (line 27):                                                 *)
(*   decodeURIComponent(s3Event.s3.object.key.replace(/\+/g, ' '))         *)
(***************************************************************************)
replacePlus(s) == [n \in 1..Len(s) |-> IF s[n] = "+" THEN " " ELSE s[n]]

HexDigits == {"0", "1", "2", "3", "4", "5", "6", "7", "8", "9",
              "A", "B", "C", "D", "E", "F", "a", "b", "c", "d", "e", "f"}

HexVal(h) ==
    CASE h = "0" -> 0 [] h = "1" -> 1 [] h = "2" -> 2 [] h = "3" -> 3
      [] h = "4" -> 4 [] h = "5" -> 5 [] h = "6" -> 6 [] h = "7" -> 7
      [] h = "8" -> 8 [] h = "9" -> 9 [] h = "A" -> 10 [] h = "B" -> 11
      [] h = "C" -> 12 [] h = "D" -> 13 [] h = "E" -> 14 [] h = "F" -> 15
      [] h = "a" -> 10 [] h = "b" -> 11 [] h = "c" -> 12 [] h = "d" -> 13
      [] h = "e" -> 14 [] h = "f" -> 15

\* the ASCII characters the keys of the model use; other codes below 128
\* decode to a character outside the model's alphabet
Chr(code) ==
    CASE code = 32 -> " " [] code = 37 -> "%" [] code = 43 -> "+"
      [] code = 46 -> "." [] OTHER -> "?"

\* decodeURIComponent: [ok |-> TRUE, val |-> decoded] or, when it throws
\* URIError, [ok |-> FALSE, val |-> <<>>].  A '%' needs two hex digits; an
\* escape of 128 or more must start a UTF-8 sequence, which no key of the
\* model completes.
RECURSIVE decodeURIComponent(_)
decodeURIComponent(s) ==
    IF s = <<>> THEN [ok |-> TRUE, val |-> <<>>]
    ELSE IF Head(s) # "%"
    THEN LET r == decodeURIComponent(Tail(s))
         IN  [ok |-> r.ok, val |-> IF r.ok THEN <<Head(s)>> \o r.val ELSE <<>>]
    ELSE IF Len(s) < 3 \/ s[2] \notin HexDigits \/ s[3] \notin HexDigits
    THEN [ok |-> FALSE, val |-> <<>>]
    ELSE IF 16 * HexVal(s[2]) + HexVal(s[3]) >= 128
    THEN [ok |-> FALSE, val |-> <<>>]
    ELSE LET r == decodeURIComponent(SubSeq(s, 4, Len(s)))
         IN  [ok |-> r.ok,
              val |-> IF r.ok THEN <<Chr(16 * HexVal(s[2]) + HexVal(s[3]))>> \o r.val
                      ELSE <<>>]

\* the '+' of the notification key left alone
decodeKey_noPlus(raw) == decodeURIComponent(raw)

\* percent-decoding first, '+' replaced afterwards
decodeKey_percentFirst(raw) ==
    LET r == decodeURIComponent(raw)
    IN  [ok |-> r.ok, val |-> replacePlus(r.val)]

decodeKey(raw) == decodeURIComponent(replacePlus(raw))

(***************************************************************************)
(* Template literals (lines 42, 51, 60)                                    *)
(***************************************************************************)
Digit(d) ==
    CASE d = 0 -> "0" [] d = 1 -> "1" [] d = 2 -> "2" [] d = 3 -> "3"
      [] d = 4 -> "4" [] d = 5 -> "5" [] d = 6 -> "6" [] d = 7 -> "7"
      [] d = 8 -> "8" [] d = 9 -> "9"

\* `${size}` : the decimal digits of a non-negative integer
RECURSIVE NumberToString(_)
NumberToString(n) ==
    IF n < 10 THEN <<Digit(n)>>
    ELSE NumberToString(n \div 10) \o <<Digit(n % 10)>>

\* `${base}-${size}x${size}.${out.info.format}`
destKeyOf(b, size, format) ==
    b \o <<"-">> \o NumberToString(size) \o <<"x">> \o NumberToString(size)
      \o <<".">> \o format

\* path-style addressing instead of the virtual-hosted style of line 51
urlOf_pathStyle(bucket, dk) == <<"https://", "s3.amazonaws.com/", bucket, "/">> \o dk

\* `https://${destBucket}.s3.amazonaws.com/${destKey}`; the bucket name and
\* the fixed parts are kept as whole strings in front of the key's characters
urlOf(bucket, dk) == <<"https://", bucket, ".s3.amazonaws.com/">> \o dk

\* the manifest named after the base instead of the whole key
manifestKeyOf_base(k) ==
    pathParts(k)[1] \o <<".", "t", "h", "u", "m", "b", "n", "a", "i", "l", "s", ".", "j", "s", "o", "n">>

\* `${key}.thumbnails.json`
manifestKeyOf(k) ==
    k \o <<".", "t", "h", "u", "m", "b", "n", "a", "i", "l", "s", ".", "j", "s", "o", "n">>

\* JSON.stringify(list): the objects in list order, each with its members in
\* insertion order (key, url, width, height)
JSONstringify(l) ==
    [n \in 1..Len(l) |->
        <<"key", l[n].key, "url", l[n].url, "width", l[n].width, "height", l[n].height>>]

(***************************************************************************)
(* The environment: bucket names fixed by the ThumbnailingBucket construct *)
(* and the keys of the notifications                                       *)
(***************************************************************************)
\* props.name as passed by the stack and by the test
BucketNames == {"lukstei-pictures2", "blog-pictures"}

\* the destination bucket being the source bucket itself
destBucketName_same(source) == source

\* bucketName: `${this.sourceBucket.bucketName}-thumbs`
destBucketName(source) == source \o "-thumbs"

\* the singleton function the CDK adds to a stack with bucket notifications
NotificationsHandler ==
    [type |-> "AWS::Lambda::Function", id |-> "BucketNotificationsHandler",
     name |-> "", DEST_BUCKET |-> Undefined]

\* one notifications handler per suffix instead of one per stack
NotificationsHandlerFor_perSuffix(suffix) ==
    [type |-> "AWS::Lambda::Function", id |-> "BucketNotificationsHandler" \o suffix,
     name |-> "", DEST_BUCKET |-> Undefined]

\* addObjectCreatedNotification(new LambdaDestination(func), {suffix}):
\* the function that applies the notification configuration
NotificationsHandlerFor(suffix) == NotificationsHandler

\* the notification for ".jpeg" left out
Suffixes_noJpeg == {".jpg", ".png"}

\* [".jpg", ".jpeg", ".png"]
Suffixes == {".jpg", ".jpeg", ".png"}

\* constructor of ThumbnailingBucket (lines 82-112) with props.name = nm:
\* the resources it defines and the notifications of the source bucket
ThumbnailingBucket(nm) ==
    [resources |->
        { [type |-> "AWS::S3::Bucket", id |-> "sourceBucket", name |-> nm,
           DEST_BUCKET |-> Undefined],
          [type |-> "AWS::S3::Bucket", id |-> "destBucket", name |-> destBucketName(nm),
           DEST_BUCKET |-> Undefined],
          [type |-> "AWS::Lambda::Function", id |-> "resizer", name |-> nm \o "-resizer",
           DEST_BUCKET |-> destBucketName(nm)] }
        \cup {NotificationsHandlerFor(suffix) : suffix \in Suffixes},
     notifications |->
        {[bucket |-> nm, events |-> "s3:ObjectCreated:*", suffix |-> suffix,
          function |-> nm \o "-resizer"] : suffix \in Suffixes}]

\* raw (encoded) object keys of the notification records
RawKeys ==
    { <<"a", ".", "j", "p", "g">>,                                \* a.jpg
      <<"a", ".", "p", "n", "g">>,                                \* a.png
      <<"a", ".", "b", ".", "j", "p", "g">>,                      \* a.b.jpg
      <<".", "j", "p", "g">>,                                     \* .jpg
      <<"b", "+", "%", "2", "B", ".", "j", "p", "e", "g">>,       \* b+%2B.jpeg
      <<"%", ".", "j", "p", "g">> }                               \* %.jpg

S3EventRecord(b, k) == [s3 |-> [bucket |-> [name |-> b], object |-> [key |-> k]]]

Batches(b) ==
    {[n \in 1..Len(ks) |-> S3EventRecord(b, ks[n])] : ks \in SeqsUpTo(RawKeys, MaxRecords)}

(***************************************************************************)
(* sharp(obj.Body).resize({height, width}).toBuffer({resolveWithObject})   *)
(* The fetched bytes are a JPEG, a PNG, an SVG or not an image at all; the *)
(* encoder keeps the input format, except that SVG input is encoded as PNG.*)
(***************************************************************************)
Bodies == {"JPEG", "PNG", "SVG", "TEXT"}

Decodable(body) == body \in {"JPEG", "PNG", "SVG"}

sharpFormat(body) ==
    CASE body = "JPEG" -> <<"j", "p", "e", "g">>
      [] body = "PNG"  -> <<"p", "n", "g">>
      [] body = "SVG"  -> <<"p", "n", "g">>

sharpResize(body, size) ==
    [data |-> [image |-> body, width |-> size, height |-> size],
     info |-> [format |-> sharpFormat(body)]]

(***************************************************************************)
(* The handler (lines 17-65)                                               *)
(***************************************************************************)
Sizes_unordered == <<100, 50, 200>>

\* for (let size of [50, 100, 200])
Sizes == <<50, 100, 200>>

\* entries of the history of calls
\* (rec: the record the call is made for; size: the size of the inner loop,
\* 0 outside it; result: what the call resolved with)
GetCall(n, b, k) ==
    [kind |-> "getObject", rec |-> n, size |-> 0, Bucket |-> b, Key |-> k,
     Body |-> None, ContentType |-> "", status |-> "pending", result |-> None]

ResizeCall(n, size) ==
    [kind |-> "resize", rec |-> n, size |-> size, Bucket |-> "", Key |-> <<>>,
     Body |-> None, ContentType |-> "", status |-> "pending", result |-> None]

PutCall(n, size, b, k, body, ct) ==
    [kind |-> "putObject", rec |-> n, size |-> size, Bucket |-> b, Key |-> k,
     Body |-> body, ContentType |-> ct, status |-> "pending", result |-> None]

\* the awaited call (the last one issued) resolves with res or rejects
Settle(tr, st, res) == [tr EXCEPT ![Len(tr)].status = st, ![Len(tr)].result = res]

\* an object that exists is left as it is
PutObject_keepFirst(store, b, k, o) ==
    [bk \in DOMAIN store \cup {<<b, k>>} |-> IF bk \in DOMAIN store THEN store[bk] ELSE o]

\* S3 stores the object under <<bucket, key>>, replacing an older one
PutObject(store, b, k, o) ==
    [bk \in DOMAIN store \cup {<<b, k>>} |-> IF bk = <<b, k>> THEN o ELSE store[bk]]

\* the block-scoped constants of one loop iteration are gone
Forget ==
    /\ obj' = None /\ base' = None /\ ext' = None /\ list' = <<>>
    /\ sz' = 0 /\ out' = None /\ destKey' = None

\* a key that cannot be decoded used as it came
ProcessRecord_rawKey(n, tr) ==
    /\ i' = n
    /\ Forget
    /\ IF n > Len(event)
       THEN /\ pc' = "done"
            /\ UNCHANGED <<key, error>>
            /\ trace' = tr
       ELSE LET d == decodeKey(event[n].s3.object.key)
                k == IF d.ok THEN d.val ELSE event[n].s3.object.key
            IN  /\ key' = k
                /\ trace' = Append(tr, GetCall(n, event[n].s3.bucket.name, k))
                /\ pc' = "getObject"
                /\ UNCHANGED error

\* the loop ending one record early
ProcessRecord_offByOne(n, tr) ==
    /\ i' = n
    /\ Forget
    /\ IF n >= Len(event)
       THEN /\ pc' = "done"
            /\ UNCHANGED <<key, error>>
            /\ trace' = tr
       ELSE LET d == decodeKey(event[n].s3.object.key)
            IN  IF ~d.ok
                THEN /\ pc' = "failed"
                     /\ error' = "URIError"
                     /\ trace' = tr
                     /\ UNCHANGED key
                ELSE /\ key' = d.val
                     /\ trace' = Append(tr, GetCall(n, event[n].s3.bucket.name, d.val))
                     /\ pc' = "getObject"
                     /\ UNCHANGED error

\* lines 26-31: the loop head takes record n (or the loop ends), decodes its
\* key and issues the fetch; tr is the history so far
ProcessRecord(n, tr) ==
    /\ i' = n
    /\ Forget
    /\ IF n > Len(event)
       THEN /\ pc' = "done"
            /\ UNCHANGED <<key, error>>
            /\ trace' = tr
       ELSE LET d == decodeKey(event[n].s3.object.key)
            IN  IF ~d.ok
                THEN /\ pc' = "failed"
                     /\ error' = "URIError"
                     /\ trace' = tr
                     /\ UNCHANGED key
                ELSE /\ key' = d.val
                     /\ trace' = Append(tr, GetCall(n, event[n].s3.bucket.name, d.val))
                     /\ pc' = "getObject"
                     /\ UNCHANGED error

\* the handler's promise rejects with e while the last call issued rejects
Throw(e) ==
    /\ pc' = "failed"
    /\ error' = e
    /\ trace' = Settle(trace, "failed", None)
    /\ UNCHANGED <<event, sourceBucket, DEST_BUCKET, i, key, obj, base, ext, list,
                   sz, out, destKey, s3store, name, parts, auxVars>>

\* lines 17-28: the handler is called and runs up to its first await
Invoke ==
    /\ pc = "start"
    /\ ProcessRecord(1, trace)
    /\ UNCHANGED <<event, sourceBucket, DEST_BUCKET, s3store, name, parts, auxVars>>

\* the bodies getObject can resolve with: the object stored under the key
\* when the contents of the source bucket are known, any body otherwise
FetchResults(b, k) ==
    IF ~srcObjects.known THEN Bodies
    ELSE IF <<b, k>> \in DOMAIN srcObjects.objs THEN {srcObjects.objs[<<b, k>>]}
    ELSE {}

\* line 28 resolves; lines 33-41 run up to the await of toBuffer
getObjectResolve ==
    /\ pc = "getObject"
    /\ \E body \in FetchResults(event[i].s3.bucket.name, key) :
        /\ obj' = body
        /\ base' = pathParts(key)[1]
        /\ ext' = pathParts(key)[2]
        /\ list' = <<>>
        /\ sz' = 1
        /\ trace' = Append(Settle(trace, "ok", body), ResizeCall(i, Sizes[1]))
        /\ pc' = "resize"
    /\ UNCHANGED <<event, sourceBucket, DEST_BUCKET, i, key, out, destKey, error,
                   s3store, name, parts, auxVars>>

\* the rejection caught and the loop continued with the next record
getObjectReject_skip ==
    /\ pc = "getObject"
    /\ ProcessRecord(i + 1, Settle(trace, "failed", None))
    /\ UNCHANGED <<event, sourceBucket, DEST_BUCKET, s3store, name, parts, auxVars>>

\* the fetch tried a second time before giving up
getObjectReject_retry ==
    /\ pc = "getObject"
    /\ IF Len(SelectSeq(trace, LAMBDA c : c.kind = "getObject" /\ c.rec = i)) < 2
       THEN /\ trace' = Append(Settle(trace, "failed", None),
                               GetCall(i, event[i].s3.bucket.name, key))
            /\ UNCHANGED <<event, sourceBucket, DEST_BUCKET, pc, i, key, obj, base,
                           ext, list, sz, out, destKey, error, s3store, name, parts, auxVars>>
       ELSE Throw("FetchError")

\* line 28 rejects (NoSuchKey, AccessDenied, a transport failure)
getObjectReject ==
    /\ pc = "getObject"
    /\ Throw("FetchError")

\* the next size resized before the variant just produced is written
toBufferResolve_resizeAhead ==
    /\ pc = "resize"
    /\ Decodable(obj)
    /\ LET o == sharpResize(obj, Sizes[sz])
       IN  /\ out' = o
           /\ IF sz < Len(Sizes)
              THEN /\ sz' = sz + 1
                   /\ trace' = Append(Settle(trace, "ok", o.info.format),
                                      ResizeCall(i, Sizes[sz + 1]))
                   /\ UNCHANGED <<pc, destKey>>
              ELSE LET dk == destKeyOf(base, Sizes[sz], o.info.format)
                   IN  /\ destKey' = dk
                       /\ trace' = Append(Settle(trace, "ok", o.info.format),
                                          PutCall(i, Sizes[sz], DEST_BUCKET, dk, o.data, ""))
                       /\ pc' = "putObject"
                       /\ UNCHANGED sz
    /\ UNCHANGED <<event, sourceBucket, DEST_BUCKET, i, key, obj, base, ext, list,
                   error, s3store, name, parts, auxVars>>

\* the destination key built from the source extension, not the reported format
toBufferResolve_ext ==
    /\ pc = "resize"
    /\ Decodable(obj)
    /\ LET o  == sharpResize(obj, Sizes[sz])
           dk == destKeyOf(base, Sizes[sz], ext)
       IN  /\ out' = o
           /\ destKey' = dk
           /\ trace' = Append(Settle(trace, "ok", o.info.format),
                              PutCall(i, Sizes[sz], DEST_BUCKET, dk, o.data, ""))
    /\ pc' = "putObject"
    /\ UNCHANGED <<event, sourceBucket, DEST_BUCKET, i, key, obj, base, ext, list,
                   sz, error, s3store, name, parts, auxVars>>

\* line 41 resolves; lines 42-48 run up to the await of putObject
toBufferResolve ==
    /\ pc = "resize"
    /\ Decodable(obj)
    /\ LET o  == sharpResize(obj, Sizes[sz])
           dk == destKeyOf(base, Sizes[sz], o.info.format)
       IN  /\ out' = o
           /\ destKey' = dk
           /\ trace' = Append(Settle(trace, "ok", o.info.format),
                              PutCall(i, Sizes[sz], DEST_BUCKET, dk, o.data, ""))
    /\ pc' = "putObject"
    /\ UNCHANGED <<event, sourceBucket, DEST_BUCKET, i, key, obj, base, ext, list,
                   sz, error, s3store, name, parts, auxVars>>

\* the rejection caught and the record skipped
toBufferReject_skip ==
    /\ pc = "resize"
    /\ ProcessRecord(i + 1, Settle(trace, "failed", None))
    /\ UNCHANGED <<event, sourceBucket, DEST_BUCKET, s3store, name, parts, auxVars>>

\* line 41 rejects: the bytes are not an image sharp can decode, or sharp
\* fails on this size for another reason
toBufferReject ==
    /\ pc = "resize"
    /\ Throw(IF Decodable(obj) THEN "ResizeError" ELSE "DecodeError")

\* the manifest's putObject issued without await: the loop goes on at once
putObjectResolve_noAwait ==
    /\ pc = "putObject"
    /\ DEST_BUCKET # Undefined
    /\ s3store' = PutObject(s3store, DEST_BUCKET, destKey,
                            [Body |-> out.data, ContentType |-> ""])
    /\ LET entry == [key |-> destKey, url |-> urlOf(DEST_BUCKET, destKey),
                     width |-> Sizes[sz], height |-> Sizes[sz]]
       IN  IF sz < Len(Sizes)
           THEN /\ list' = Append(list, entry)
                /\ sz' = sz + 1
                /\ trace' = Append(Settle(trace, "ok", None), ResizeCall(i, Sizes[sz + 1]))
                /\ pc' = "resize"
                /\ UNCHANGED <<i, key, obj, base, ext, out, destKey, error>>
           ELSE ProcessRecord(i + 1,
                    Append(Settle(trace, "ok", None),
                           PutCall(i, 0, DEST_BUCKET, manifestKeyOf(key),
                                   JSONstringify(Append(list, entry)),
                                   "application/json")))
    /\ UNCHANGED <<event, sourceBucket, DEST_BUCKET, name, parts, auxVars>>

\* line 48 resolves; lines 49-54 run, then either the next size up to the
\* await of toBuffer, or lines 57-63 up to the await of the manifest's putObject
putObjectResolve ==
    /\ pc = "putObject"
    /\ DEST_BUCKET # Undefined
    /\ s3store' = PutObject(s3store, DEST_BUCKET, destKey,
                            [Body |-> out.data, ContentType |-> ""])
    /\ list' = Append(list, [key |-> destKey, url |-> urlOf(DEST_BUCKET, destKey),
                             width |-> Sizes[sz], height |-> Sizes[sz]])
    /\ IF sz < Len(Sizes)
       THEN /\ sz' = sz + 1
            /\ trace' = Append(Settle(trace, "ok", None), ResizeCall(i, Sizes[sz + 1]))
            /\ pc' = "resize"
       ELSE /\ sz' = sz
            /\ trace' = Append(Settle(trace, "ok", None),
                               PutCall(i, 0, DEST_BUCKET, manifestKeyOf(key),
                                       JSONstringify(list'), "application/json"))
            /\ pc' = "putManifest"
    /\ UNCHANGED <<event, sourceBucket, DEST_BUCKET, i, key, obj, base, ext, out,
                   destKey, error, name, parts, auxVars>>

\* the variants of the record written so far deleted again on a failed write
putObjectReject_rollback ==
    /\ pc = "putObject"
    /\ pc' = "failed"
    /\ error' = "WriteError"
    /\ trace' = Settle(trace, "failed", None)
    /\ s3store' = [bk \in DOMAIN s3store \
                        {<<DEST_BUCKET, list[n].key>> : n \in 1..Len(list)} |-> s3store[bk]]
    /\ UNCHANGED <<event, sourceBucket, DEST_BUCKET, i, key, obj, base, ext, list,
                   sz, out, destKey, name, parts, auxVars>>

\* the rejection caught inside the size loop: the remaining sizes are tried
putObjectReject_continue ==
    /\ pc = "putObject"
    /\ IF sz < Len(Sizes)
       THEN /\ sz' = sz + 1
            /\ trace' = Append(Settle(trace, "failed", None), ResizeCall(i, Sizes[sz + 1]))
            /\ pc' = "resize"
            /\ error' = "WriteError"
            /\ UNCHANGED <<event, sourceBucket, DEST_BUCKET, i, key, obj, base, ext,
                           list, out, destKey, s3store, name, parts, auxVars>>
       ELSE Throw("WriteError")

\* line 48 rejects (AccessDenied, a transport failure; a missing Bucket
\* parameter is rejected by the SDK's parameter validation)
putObjectReject ==
    /\ pc = "putObject"
    /\ Throw("WriteError")

\* line 63 resolves; the loop goes on with the next record (lines 26-31)
putManifestResolve ==
    /\ pc = "putManifest"
    /\ DEST_BUCKET # Undefined
    /\ s3store' = PutObject(s3store, DEST_BUCKET, manifestKeyOf(key),
                            [Body |-> JSONstringify(list),
                             ContentType |-> "application/json"])
    /\ ProcessRecord(i + 1, Settle(trace, "ok", None))
    /\ UNCHANGED <<event, sourceBucket, DEST_BUCKET, name, parts, auxVars>>

\* line 63 rejects
putManifestReject ==
    /\ pc = "putManifest"
    /\ Throw("WriteError")

Init ==
    /\ sourceBucket \in BucketNames
    /\ DEST_BUCKET \in {destBucketName(sourceBucket), Undefined}
    /\ event \in Batches(sourceBucket)
    /\ pc = "start"
    /\ i = 0
    /\ key = None /\ obj = None /\ base = None /\ ext = None /\ list = <<>>
    /\ sz = 0 /\ out = None /\ destKey = None
    /\ error = NoError
    /\ trace = <<>>
    /\ s3store = <<>>
    /\ name = <<>>
    /\ parts = None
    /\ srcObjects = [known |-> FALSE, objs |-> <<>>]
    /\ resources = ThumbnailingBucket(sourceBucket)
    /\ rawKey = <<>>
    /\ decoded = None
    /\ parked = None
    /\ previous = "none"
    /\ platform = NoPlatform

Next ==
    \/ Invoke
    \/ getObjectResolve
    \/ getObjectReject
    \/ toBufferResolve
    \/ toBufferReject
    \/ putObjectResolve
    \/ putObjectReject
    \/ putManifestResolve
    \/ putManifestReject

Spec == Init /\ [][Next]_vars

\* the batches of SpecLive: a key that decodes and one that does not
LiveKeys ==
    { <<"a", ".", "j", "p", "g">>,                                \* a.jpg
      <<"%", ".", "j", "p", "g">> }                               \* %.jpg

InitLive ==
    /\ Init
    /\ sourceBucket = "blog-pictures"
    /\ \A n \in 1..Len(event) : event[n].s3.object.key \in LiveKeys

\* every call the handler awaits is settled in the end
SpecLive == InitLive /\ [][Next]_vars /\ WF_vars(Next)

(***************************************************************************)
(* pathParts on its own: every name over a small alphabet                  *)
(***************************************************************************)
NameAlphabet == {"a", "b", ".", "\n"}

ApplyPathParts ==
    /\ pc = "idle"
    /\ parts = None
    /\ parts' = pathParts(name)
    /\ UNCHANGED <<handlerVars, name, auxVars>>

InitPathParts ==
    /\ name \in SeqsUpTo(NameAlphabet, MaxNameLen)
    /\ parts = None
    /\ sourceBucket = "blog-pictures"
    /\ DEST_BUCKET = destBucketName(sourceBucket)
    /\ event = <<>>
    /\ pc = "idle"
    /\ i = 0
    /\ key = None /\ obj = None /\ base = None /\ ext = None /\ list = <<>>
    /\ sz = 0 /\ out = None /\ destKey = None
    /\ error = NoError
    /\ trace = <<>>
    /\ s3store = <<>>
    /\ srcObjects = [known |-> FALSE, objs |-> <<>>]
    /\ resources = ThumbnailingBucket(sourceBucket)
    /\ rawKey = <<>>
    /\ decoded = None
    /\ parked = None
    /\ previous = "none"
    /\ platform = NoPlatform

NextPathParts == ApplyPathParts

SpecPathParts == InitPathParts /\ [][NextPathParts]_vars

(***************************************************************************)
(* Redelivery: the contents of the source bucket are fixed, and the        *)
(* platform hands a batch whose invocation has ended to the handler again  *)
(***************************************************************************)
\* the decoded keys of a batch
KeysOf(ev) ==
    {decodeKey(ev[n].s3.object.key).val :
        n \in {m \in 1..Len(ev) : decodeKey(ev[m].s3.object.key).ok}}

\* a new invocation on the same batch; nothing of the old one is left but
\* what it wrote
Redeliver ==
    /\ pc \in {"done", "failed"}
    /\ previous' = pc
    /\ pc' = "start"
    /\ i' = 0
    /\ key' = None
    /\ Forget
    /\ error' = NoError
    /\ trace' = <<>>
    /\ UNCHANGED <<event, sourceBucket, DEST_BUCKET, s3store, name, parts,
                   srcObjects, resources, rawKey, decoded, parked, platform>>

InitRedelivery ==
    /\ sourceBucket = "blog-pictures"
    /\ DEST_BUCKET = destBucketName(sourceBucket)
    /\ event \in Batches(sourceBucket)
    /\ \E D \in SUBSET {<<sourceBucket, k>> : k \in KeysOf(event)} :
           srcObjects \in [known : {TRUE}, objs : [D -> Bodies]]
    /\ pc = "start"
    /\ i = 0
    /\ key = None /\ obj = None /\ base = None /\ ext = None /\ list = <<>>
    /\ sz = 0 /\ out = None /\ destKey = None
    /\ error = NoError
    /\ trace = <<>>
    /\ s3store = <<>>
    /\ name = <<>>
    /\ parts = None
    /\ resources = ThumbnailingBucket(sourceBucket)
    /\ rawKey = <<>>
    /\ decoded = None
    /\ parked = None
    /\ previous = "none"
    /\ platform = NoPlatform

NextRedelivery ==
    \/ Next
    \/ Redeliver

SpecRedelivery == InitRedelivery /\ [][NextRedelivery]_vars

(***************************************************************************)
(* The key decoding of line 27 on its own: every raw key over a small      *)
(* alphabet; decoded is <<>> before and <<result>> after the decoding      *)
(***************************************************************************)
KeyAlphabet == {"a", "+", "%", "2", "B", "0"}

ApplyDecodeKey ==
    /\ pc = "idle"
    /\ decoded = None
    /\ decoded' = <<decodeKey(rawKey)>>
    /\ UNCHANGED <<handlerVars, name, parts, srcObjects, resources, rawKey, parked,
                   previous, platform>>

InitDecodeKey ==
    /\ rawKey \in SeqsUpTo(KeyAlphabet, MaxKeyLen)
    /\ decoded = None
    /\ name = <<>>
    /\ parts = None
    /\ sourceBucket = "blog-pictures"
    /\ DEST_BUCKET = destBucketName(sourceBucket)
    /\ event = <<>>
    /\ pc = "idle"
    /\ i = 0
    /\ key = None /\ obj = None /\ base = None /\ ext = None /\ list = <<>>
    /\ sz = 0 /\ out = None /\ destKey = None
    /\ error = NoError
    /\ trace = <<>>
    /\ s3store = <<>>
    /\ srcObjects = [known |-> FALSE, objs |-> <<>>]
    /\ resources = ThumbnailingBucket(sourceBucket)
    /\ parked = None
    /\ previous = "none"
    /\ platform = NoPlatform

NextDecodeKey == ApplyDecodeKey

SpecDecodeKey == InitDecodeKey /\ [][NextDecodeKey]_vars

(***************************************************************************)
(* Two invocations of the handler at once (the platform runs one per       *)
(* notification batch): each has its own event and locals and they share   *)
(* the buckets.  The variables of the handler are those of the invocation  *)
(* that runs; parked holds those of the other one, and Switch lets the     *)
(* other one run, which can happen between any two awaits.                 *)
(***************************************************************************)
ConcurrentKeys == {<<"a", ".", "j", "p", "g">>, <<"a", ".", "p", "n", "g">>}

\* the event and locals of the invocation that runs
Context ==
    [event |-> event, pc |-> pc, i |-> i, key |-> key, obj |-> obj, base |-> base,
     ext |-> ext, list |-> list, sz |-> sz, out |-> out, destKey |-> destKey,
     error |-> error, trace |-> trace]

\* an invocation about to be called with batch ev
StartContext(ev) ==
    [event |-> ev, pc |-> "start", i |-> 0, key |-> None, obj |-> None, base |-> None,
     ext |-> None, list |-> <<>>, sz |-> 0, out |-> None, destKey |-> None,
     error |-> NoError, trace |-> <<>>]

Switch ==
    /\ parked' = Context
    /\ event' = parked.event
    /\ pc' = parked.pc
    /\ i' = parked.i
    /\ key' = parked.key
    /\ obj' = parked.obj
    /\ base' = parked.base
    /\ ext' = parked.ext
    /\ list' = parked.list
    /\ sz' = parked.sz
    /\ out' = parked.out
    /\ destKey' = parked.destKey
    /\ error' = parked.error
    /\ trace' = parked.trace
    /\ UNCHANGED <<sourceBucket, DEST_BUCKET, s3store, name, parts, srcObjects,
                   resources, rawKey, decoded, previous, platform>>

InitConcurrent ==
    /\ sourceBucket = "blog-pictures"
    /\ DEST_BUCKET = destBucketName(sourceBucket)
    /\ \E ks \in SeqsUpTo(ConcurrentKeys, MaxRecords) :
        /\ Len(ks) >= 1
        /\ event = [n \in 1..Len(ks) |-> S3EventRecord(sourceBucket, ks[n])]
    /\ \E k \in ConcurrentKeys :
        parked = StartContext(<<S3EventRecord(sourceBucket, k)>>)
    /\ srcObjects \in [known : {TRUE},
                       objs : [{<<sourceBucket, k>> : k \in ConcurrentKeys}
                                    -> {"JPEG", "PNG"}]]
    /\ pc = "start"
    /\ i = 0
    /\ key = None /\ obj = None /\ base = None /\ ext = None /\ list = <<>>
    /\ sz = 0 /\ out = None /\ destKey = None
    /\ error = NoError
    /\ trace = <<>>
    /\ s3store = <<>>
    /\ name = <<>>
    /\ parts = None
    /\ resources = ThumbnailingBucket(sourceBucket)
    /\ rawKey = <<>>
    /\ decoded = None
    /\ previous = "none"
    /\ platform = NoPlatform

NextConcurrent ==
    \/ Next
    \/ Switch

SpecConcurrent == InitConcurrent /\ [][NextConcurrent]_vars

(***************************************************************************)
(* The pipeline the construct wires up (lines 82-112): objects are         *)
(* uploaded to the source bucket, S3 matches every created object against  *)
(* the notifications of its bucket and queues an event for the resizer,    *)
(* Lambda invokes the handler with one queued event at a time, and the     *)
(* objects the handler writes are created objects like any other.          *)
(***************************************************************************)
UploadKeys ==
    { <<"a", ".", "j", "p", "g">>,            \* a.jpg
      <<"b", ".", "j", "p", "e", "g">>,       \* b.jpeg
      <<"a", " ", "b", ".", "p", "n", "g">>,  \* a b.png
      <<"a", ".", "g", "i", "f">>,            \* a.gif
      <<"a", ".", "J", "P", "G">> }           \* a.JPG

UploadBodies == {"JPEG", "TEXT"}

\* the characters of a suffix filter
SuffixChars(suffix) ==
    CASE suffix = ".jpg"  -> <<".", "j", "p", "g">>
      [] suffix = ".jpeg" -> <<".", "j", "p", "e", "g">>
      [] suffix = ".png"  -> <<".", "p", "n", "g">>

EndsWith(k, sfx) ==
    /\ Len(k) >= Len(sfx)
    /\ SubSeq(k, Len(k) - Len(sfx) + 1, Len(k)) = sfx

\* the object key as S3 puts it into the event: URL-encoded, a space as '+'
RECURSIVE s3Encode(_)
s3Encode(k) ==
    IF k = <<>> THEN <<>>
    ELSE (CASE Head(k) = " " -> <<"+">>
            [] Head(k) = "+" -> <<"%", "2", "B">>
            [] Head(k) = "%" -> <<"%", "2", "5">>
            [] OTHER         -> <<Head(k)>>) \o s3Encode(Tail(k))

\* the notifications of bucket b that object key k matches
Triggers(b, k) ==
    {n \in resources.notifications : n.bucket = b /\ EndsWith(k, SuffixChars(n.suffix))}

\* S3 has created object k in bucket b: the event is queued for the function
\* when a notification of the bucket matches
ObjectCreated(pl, b, k) ==
    [pl EXCEPT !.created = @ \cup {[bucket |-> b, key |-> k,
                                    invoked |-> Triggers(b, k) # {}]},
               !.queue = IF Triggers(b, k) # {}
                         THEN Append(@, S3EventRecord(b, s3Encode(k)))
                         ELSE @,
               !.queued = IF Triggers(b, k) # {} THEN @ + 1 ELSE @]

\* the same for every object of the set bks, one after the other
RECURSIVE ObjectsCreated(_, _)
ObjectsCreated(pl, bks) ==
    IF bks = {} THEN pl
    ELSE LET bk == CHOOSE x \in bks : TRUE
         IN  ObjectsCreated(ObjectCreated(pl, bk[1], bk[2]), bks \ {bk})

\* somebody puts an object into the source bucket
Upload ==
    /\ platform.uploads < MaxUploads
    /\ \E k \in UploadKeys, body \in UploadBodies :
        /\ srcObjects' = [srcObjects EXCEPT !.objs =
                            PutObject(@, sourceBucket, k, body)]
        /\ platform' = [ObjectCreated(platform, sourceBucket, k)
                            EXCEPT !.uploads = @ + 1]
    /\ UNCHANGED <<handlerVars, name, parts, resources, rawKey, decoded, parked,
                   previous>>

\* the objects the handler has written are created objects of their bucket
DestObjectCreated ==
    /\ LET new == {bk \in DOMAIN s3store :
                    \A c \in platform.created : <<c.bucket, c.key>> # bk}
       IN  /\ new # {}
           /\ platform' = ObjectsCreated(platform, new)
    /\ UNCHANGED <<handlerVars, name, parts, srcObjects, resources, rawKey, decoded,
                   parked, previous>>

\* Lambda calls the handler with the oldest queued event
Deliver ==
    /\ pc \in {"idle", "done", "failed"}
    /\ platform.queue # <<>>
    /\ event' = <<Head(platform.queue)>>
    /\ platform' = [platform EXCEPT !.queue = Tail(@), !.invocations = @ + 1]
    /\ pc' = "start"
    /\ i' = 0
    /\ key' = None
    /\ Forget
    /\ error' = NoError
    /\ trace' = <<>>
    /\ UNCHANGED <<sourceBucket, DEST_BUCKET, s3store, name, parts, srcObjects,
                   resources, rawKey, decoded, parked, previous>>

InitPipeline ==
    /\ sourceBucket = "blog-pictures"
    /\ resources = ThumbnailingBucket(sourceBucket)
    /\ DEST_BUCKET = (CHOOSE r \in resources.resources : r.id = "resizer").DEST_BUCKET
    /\ event = <<>>
    /\ pc = "idle"
    /\ i = 0
    /\ key = None /\ obj = None /\ base = None /\ ext = None /\ list = <<>>
    /\ sz = 0 /\ out = None /\ destKey = None
    /\ error = NoError
    /\ trace = <<>>
    /\ s3store = <<>>
    /\ name = <<>>
    /\ parts = None
    /\ srcObjects = [known |-> TRUE, objs |-> <<>>]
    /\ rawKey = <<>>
    /\ decoded = None
    /\ parked = None
    /\ previous = "none"
    /\ platform = NoPlatform

NextPipeline ==
    \/ Next
    \/ Upload
    \/ DestObjectCreated
    \/ Deliver

SpecPipeline == InitPipeline /\ [][NextPipeline]_vars

(***************************************************************************)
(* Two invocations for the same source key at once, as after an upload and *)
(* a second upload that replaces the object: each fetch returns what the   *)
(* source bucket holds at that moment.                                     *)
(***************************************************************************)
ReplacedKey == <<"a", ".", "p", "n", "g">>

\* the first version of the object
FirstVersion == "PNG"

\* the object is uploaded again with other bytes
ReplaceSource ==
    /\ srcObjects.objs[<<sourceBucket, ReplacedKey>>] = FirstVersion
    /\ \E body \in Bodies \ {FirstVersion} :
        srcObjects' = [srcObjects EXCEPT !.objs[<<sourceBucket, ReplacedKey>>] = body]
    /\ UNCHANGED <<handlerVars, name, parts, resources, rawKey, decoded, parked,
                   previous, platform>>

InitReplaced ==
    /\ sourceBucket = "blog-pictures"
    /\ DEST_BUCKET = destBucketName(sourceBucket)
    /\ event = <<S3EventRecord(sourceBucket, ReplacedKey)>>
    /\ parked = StartContext(<<S3EventRecord(sourceBucket, ReplacedKey)>>)
    /\ srcObjects = [known |-> TRUE,
                     objs |-> [bk \in {<<sourceBucket, ReplacedKey>>} |-> FirstVersion]]
    /\ pc = "start"
    /\ i = 0
    /\ key = None /\ obj = None /\ base = None /\ ext = None /\ list = <<>>
    /\ sz = 0 /\ out = None /\ destKey = None
    /\ error = NoError
    /\ trace = <<>>
    /\ s3store = <<>>
    /\ name = <<>>
    /\ parts = None
    /\ resources = ThumbnailingBucket(sourceBucket)
    /\ rawKey = <<>>
    /\ decoded = None
    /\ previous = "none"
    /\ platform = NoPlatform

NextReplaced ==
    \/ NextConcurrent
    \/ ReplaceSource

SpecReplaced == InitReplaced /\ [][NextReplaced]_vars

(***************************************************************************)
(* Properties                                                              *)
(***************************************************************************)
Calls == 1..Len(trace)

IsVariantPut(c) == c.kind = "putObject" /\ c.size # 0
IsManifestPut(c) == c.kind = "putObject" /\ c.size = 0
IsIO(c) == c.kind \in {"getObject", "putObject"}

\* the putObject calls issued for record r, in the order of issue
PutsOf(r) == SelectSeq(trace, LAMBDA c : c.kind = "putObject" /\ c.rec = r)
VariantPutsOf(r) == SelectSeq(trace, LAMBDA c : IsVariantPut(c) /\ c.rec = r)
GetsOf(r) == SelectSeq(trace, LAMBDA c : c.kind = "getObject" /\ c.rec = r)

\* C1: within one record the writes are issued in the order 50, 100, 200,
\* manifest, and each of them (so the manifest too) is issued only after all
\* the writes of the record issued before it have resolved successfully.
C1_WriteOrder ==
    \A r \in 1..Len(event) :
        LET p == PutsOf(r)
        IN  /\ Len(p) <= 4
            /\ \A j \in 1..Len(p) :
                /\ p[j].size = <<50, 100, 200, 0>>[j]
                /\ \A k \in 1..(j - 1) : p[k].status = "ok"

\* the manifest write of a record has been issued
C1_Witness ==
    /\ pc = "putManifest"
    /\ IsManifestPut(trace[Len(trace)])
    /\ Len(VariantPutsOf(i)) = 3

\* C2: the calls are issued record by record in the received order, a call
\* for record n+1 only after the manifest write of record n has resolved, and
\* at most one getObject/putObject is pending at any moment.
C2_Sequential ==
    /\ \A j \in Calls : \A k \in Calls : j < k => trace[j].rec <= trace[k].rec
    /\ \A j \in Calls :
        trace[j].rec > 1 =>
            \E m \in 1..(j - 1) : /\ IsManifestPut(trace[m])
                                  /\ trace[m].rec = trace[j].rec - 1
                                  /\ trace[m].status = "ok"
    /\ Cardinality({j \in Calls : IsIO(trace[j]) /\ trace[j].status = "pending"}) <= 1

\* a call of the second record is pending
C2_Witness ==
    /\ Len(trace) > 0
    /\ trace[Len(trace)].rec = 2
    /\ trace[Len(trace)].status = "pending"

\* C3: a rejected call is the last call issued and leaves the invocation
\* failed; an error always means a failed invocation, stopped at the record
\* that raised it; after a failed fetch of record r there is no write for r
\* or for a later record.
C3_FailFast ==
    /\ \A j \in Calls :
        trace[j].status = "failed" =>
            /\ j = Len(trace)
            /\ pc = "failed"
            /\ error # NoError
            /\ i = trace[j].rec
    /\ error # NoError => pc = "failed"
    /\ pc = "failed" =>
            /\ error # NoError
            /\ \A j \in Calls : trace[j].status # "pending" /\ trace[j].rec <= i
    /\ \A j \in Calls :
        (trace[j].kind = "getObject" /\ trace[j].status = "failed") =>
            \A k \in Calls :
                (trace[k].kind = "putObject" /\ trace[k].rec >= trace[j].rec) => FALSE

\* the fetch of the first record of a longer batch failed
C3_Witness ==
    /\ Len(event) >= 2
    /\ error = "FetchError"
    /\ i = 1
    /\ trace[1].kind = "getObject" /\ trace[1].status = "failed"

\* C4: after a failed variant write of a record no manifest write is issued
\* for that record, and every variant that was written is still in the
\* destination bucket.
C4_NoManifestNoRollback ==
    /\ \A j \in Calls :
        (IsVariantPut(trace[j]) /\ trace[j].status = "failed") =>
            \A k \in Calls : ~(IsManifestPut(trace[k]) /\ trace[k].rec = trace[j].rec)
    /\ \A j \in Calls :
        (IsVariantPut(trace[j]) /\ trace[j].status = "ok") =>
            /\ <<trace[j].Bucket, trace[j].Key>> \in DOMAIN s3store
            /\ s3store[<<trace[j].Bucket, trace[j].Key>>].ContentType = ""

\* the write of the 200 variant failed after 50 and 100 were written
C4_Witness ==
    /\ error = "WriteError"
    /\ IsVariantPut(trace[Len(trace)])
    /\ trace[Len(trace)].size = 200
    /\ Len(list) = 2

\* C5 as stated: once the invocation has ended, a failed variant write that
\* was not the last size is followed by a write attempt for the next size.
C5_Original ==
    pc \in {"done", "failed"} =>
        \A j \in Calls :
            (IsVariantPut(trace[j]) /\ trace[j].status = "failed" /\ trace[j].size # 200) =>
                \E k \in Calls : /\ k > j
                                 /\ IsVariantPut(trace[k])
                                 /\ trace[k].rec = trace[j].rec

\* C5 amended: a failed variant write ends the invocation with a write error;
\* no resize and no write (remaining sizes, manifest) is issued after it.
C5_WriteFailureAborts ==
    \A j \in Calls :
        (IsVariantPut(trace[j]) /\ trace[j].status = "failed") =>
            /\ \A k \in Calls : k > j => trace[k].kind \notin {"resize", "putObject"}
            /\ pc = "failed"
            /\ error = "WriteError"

\* the write of the 50 variant failed: 100 and 200 were still to come
C5_Witness ==
    /\ pc = "failed"
    /\ error = "WriteError"
    /\ IsVariantPut(trace[Len(trace)])
    /\ trace[Len(trace)].status = "failed"
    /\ trace[Len(trace)].size = 50
    /\ DEST_BUCKET # Undefined

\* C6 as stated: without DEST_BUCKET no fetch, resize or write is issued.
C6_NoCallWithoutDestBucket ==
    DEST_BUCKET = Undefined => trace = <<>>

\* the handler has got as far as the fetch of record r: its loop iteration
\* began and the key of the record could be decoded
Reached(r) ==
    /\ pc # "start"
    /\ r <= i
    /\ ~(r = i /\ error = "URIError")

Processed(r) ==
    \E j \in Calls : IsManifestPut(trace[j]) /\ trace[j].rec = r /\ trace[j].status = "ok"

\* the formats the encoder reported for the variants of record r, in order
FormatsOf(r) ==
    LET z == SelectSeq(trace, LAMBDA c : c.kind = "resize" /\ c.rec = r)
    IN  [n \in 1..Len(z) |-> z[n].result]

\* C8: a processed record with decoded key K has exactly four putObject
\* calls, all resolved, all for the bucket named by DEST_BUCKET (the
\* construct's <source>-thumbs, not the record's bucket): <base>-50x50.<fmt>,
\* <base>-100x100.<fmt>, <base>-200x200.<fmt> with base the first part of
\* pathParts(K) and fmt the encoder's format, then K.thumbnails.json with
\* content type application/json; the store holds nothing but what these
\* calls wrote.
C8_FourWrites ==
    /\ \A r \in 1..Len(event) :
        Processed(r) =>
            LET K == decodeKey(event[r].s3.object.key).val
                b == pathParts(K)[1]
                f == FormatsOf(r)
                p == PutsOf(r)
            IN  /\ Len(p) = 4
                /\ Len(f) = 3
                /\ \A j \in 1..4 : /\ p[j].status = "ok"
                                   /\ p[j].Bucket = DEST_BUCKET
                                   /\ p[j].Bucket = destBucketName(sourceBucket)
                                   /\ p[j].Bucket # event[r].s3.bucket.name
                /\ p[1].Key = b \o <<"-", "5", "0", "x", "5", "0", ".">> \o f[1]
                /\ p[2].Key = b \o <<"-", "1", "0", "0", "x", "1", "0", "0", ".">> \o f[2]
                /\ p[3].Key = b \o <<"-", "2", "0", "0", "x", "2", "0", "0", ".">> \o f[3]
                /\ p[4].Key = K \o <<".", "t", "h", "u", "m", "b", "n", "a", "i", "l", "s",
                                     ".", "j", "s", "o", "n">>
                /\ p[4].ContentType = "application/json"
                /\ \A j \in 1..3 : p[j].ContentType = ""
    /\ DOMAIN s3store =
           {<<trace[j].Bucket, trace[j].Key>> :
                j \in {k \in Calls : trace[k].kind = "putObject" /\ trace[k].status = "ok"}}

\* a record whose key had to be decoded and has an extension was processed
C8_Witness ==
    /\ pc = "done"
    /\ \E r \in 1..Len(event) :
        /\ Processed(r)
        /\ decodeKey(event[r].s3.object.key).val # event[r].s3.object.key
        /\ pathParts(decodeKey(event[r].s3.object.key).val)[2] = <<"j", "p", "e", "g">>

\* C9: the body of every manifest write has one entry per variant write of
\* its record, in the order 50, 100, 200; entry n carries the key of the n-th
\* variant write, width = height = the size, and the url
\* "https://" + DEST_BUCKET + ".s3.amazonaws.com/" + that key; a manifest in
\* the store is the body of the last manifest write to its key.
C9_Manifest ==
    /\ \A m \in Calls :
        IsManifestPut(trace[m]) =>
            LET v == VariantPutsOf(trace[m].rec)
                body == trace[m].Body
            IN  /\ Len(v) = 3
                /\ Len(body) = 3
                /\ \A n \in 1..3 :
                    /\ v[n].size = <<50, 100, 200>>[n]
                    /\ v[n].status = "ok"
                    /\ body[n] = << "key", v[n].Key,
                                    "url", <<"https://", DEST_BUCKET, ".s3.amazonaws.com/">>
                                               \o v[n].Key,
                                    "width", v[n].size,
                                    "height", v[n].size >>
    /\ \A m \in Calls :
        (IsManifestPut(trace[m]) /\ trace[m].status = "ok"
            /\ \A k \in Calls : (k > m /\ IsManifestPut(trace[k]) /\ trace[k].status = "ok")
                                    => trace[k].Key # trace[m].Key) =>
            s3store[<<trace[m].Bucket, trace[m].Key>>] =
                [Body |-> trace[m].Body, ContentType |-> "application/json"]

\* the manifest of a.b.jpg is in the destination bucket
C9_Witness ==
    /\ DEST_BUCKET # Undefined
    /\ <<DEST_BUCKET, <<"a", ".", "b", ".", "j", "p", "g", ".", "t", "h", "u", "m", "b",
                        "n", "a", "i", "l", "s", ".", "j", "s", "o", "n">>>> \in DOMAIN s3store

HasDot(s) == \E p \in 1..Len(s) : s[p] = "."

Splittable(s) ==
    /\ \A q \in 1..Len(s) : s[q] \notin {"\n", "\r"}
    /\ \E p \in 2..(Len(s) - 1) : s[p] = "."

Count(c, s) == Cardinality({p \in 1..Len(s) : s[p] = c})

\* the number of escapes %h1h2 in a raw key
Escapes(raw, h1, h2) ==
    Cardinality({p \in 1..(Len(raw) - 2) :
                    raw[p] = "%" /\ raw[p + 1] = h1 /\ raw[p + 2] = h2})

IsPrefix(s, t) == Len(s) <= Len(t) /\ SubSeq(t, 1, Len(s)) = s

\* C11: the key of the fetch has a space for every literal '+' and for every
\* %20 of the raw key and a '+' for every %2B (three raw characters give one);
\* the variant keys of the record begin with the base of that key and the
\* manifest key with the key itself; "b+%2B.jpeg" is fetched as "b +.jpeg".
C11_PlusThenPercent ==
    \A r \in 1..Len(event) :
        Len(GetsOf(r)) > 0 =>
            LET raw == event[r].s3.object.key
                K == GetsOf(r)[1].Key
                p == PutsOf(r)
            IN  /\ Count("+", K) = Escapes(raw, "2", "B")
                /\ Count(" ", K) = Count("+", raw) + Escapes(raw, "2", "0")
                /\ Len(K) = Len(raw) - 2 * Count("%", raw)
                /\ raw = <<"b", "+", "%", "2", "B", ".", "j", "p", "e", "g">>
                       => K = <<"b", " ", "+", ".", "j", "p", "e", "g">>
                /\ \A j \in 1..Len(p) :
                       IF p[j].size = 0
                       THEN IsPrefix(K, p[j].Key)
                       ELSE IsPrefix(pathParts(K)[1] \o <<"-">>, p[j].Key)

\* the record with key "b+%2B.jpeg" was processed
C11_Witness ==
    /\ pc = "done"
    /\ \E r \in 1..Len(event) :
        /\ event[r].s3.object.key = <<"b", "+", "%", "2", "B", ".", "j", "p", "e", "g">>
        /\ Len(PutsOf(r)) = 4
        /\ PutsOf(r)[1].Key = <<"b", " ", "+", "-", "5", "0", "x", "5", "0", ".", "p", "n", "g">>

\* C15 as stated: the key is the percent-decoded raw key with every '+' of
\* that result replaced by a space.
C15_Original ==
    (decoded # None /\ decoded[1].ok) =>
        decoded[1].val = replacePlus(decodeURIComponent(rawKey).val)

\* every '%' of the raw key starts an escape of two hex digits below 128
\* (hex digits of either case: 'a' and 'B' are some)
WellFormed(raw) ==
    \A p \in 1..Len(raw) :
        raw[p] = "%" =>
            /\ p + 2 <= Len(raw)
            /\ raw[p + 1] \in {"0", "2"}
            /\ raw[p + 2] \in {"0", "2", "B", "a"}

\* the positions of a well-formed raw key that give a character of the key:
\* all but the two hex digits of each escape
Kept(raw) ==
    {p \in 1..Len(raw) : ~(p > 1 /\ raw[p - 1] = "%") /\ ~(p > 2 /\ raw[p - 2] = "%")}

\* the position of the raw key that gives the n-th character of the key
Origin(raw, n) ==
    CHOOSE p \in Kept(raw) : Cardinality({q \in Kept(raw) : q <= p}) = n

\* C15 amended: decoding succeeds exactly on the well-formed raw keys; the
\* key has one character per literal character and per escape of the raw
\* key, in order: a space for a literal '+', a space for %20, a '+' for %2B
\* (not a space), and every other literal character unchanged.
C15_PlusFirst ==
    decoded # None =>
        /\ decoded[1].ok = WellFormed(rawKey)
        /\ decoded[1].ok =>
            /\ Len(decoded[1].val) = Cardinality(Kept(rawKey))
            /\ \A n \in 1..Len(decoded[1].val) :
                LET p == Origin(rawKey, n)
                    c == decoded[1].val[n]
                IN  /\ rawKey[p] = "+" => c = " "
                    /\ rawKey[p] \notin {"+", "%"} => c = rawKey[p]
                    /\ (rawKey[p] = "%" /\ rawKey[p + 1] = "2" /\ rawKey[p + 2] = "B")
                           => c = "+"
                    /\ (rawKey[p] = "%" /\ rawKey[p + 1] = "2" /\ rawKey[p + 2] = "0")
                           => c = " "

\* "+%2B" was decoded to " +"
C15_Witness ==
    /\ rawKey = <<"+", "%", "2", "B">>
    /\ decoded = << [ok |-> TRUE, val |-> <<" ", "+">>] >>

\* the destination bucket after one run without failure on the first n
\* records of the batch, started on store st: per record the variants
\* <base>-50x50, -100x100, -200x200 in the encoded format and the manifest
SingleRun(n, st) ==
    LET Fmt(body) == IF body = "JPEG" THEN <<"j", "p", "e", "g">> ELSE <<"p", "n", "g">>
        Tail50 == <<"-", "5", "0", "x", "5", "0", ".">>
        Tail100 == <<"-", "1", "0", "0", "x", "1", "0", "0", ".">>
        Tail200 == <<"-", "2", "0", "0", "x", "2", "0", "0", ".">>
        Json == <<".", "t", "h", "u", "m", "b", "n", "a", "i", "l", "s", ".", "j", "s", "o", "n">>
        Image(body, size) ==
            [Body |-> [image |-> body, width |-> size, height |-> size], ContentType |-> ""]
        Entry(k, size) ==
            <<"key", k, "url", <<"https://", DEST_BUCKET, ".s3.amazonaws.com/">> \o k,
              "width", size, "height", size>>
        Written(r) ==
            LET K == decodeKey(event[r].s3.object.key).val
                body == srcObjects.objs[<<event[r].s3.bucket.name, K>>]
                b == pathParts(K)[1]
                k50 == b \o Tail50 \o Fmt(body)
                k100 == b \o Tail100 \o Fmt(body)
                k200 == b \o Tail200 \o Fmt(body)
            IN  (<<DEST_BUCKET, k50>> :> Image(body, 50))
                @@ (<<DEST_BUCKET, k100>> :> Image(body, 100))
                @@ (<<DEST_BUCKET, k200>> :> Image(body, 200))
                @@ (<<DEST_BUCKET, K \o Json>> :>
                       [Body |-> <<Entry(k50, 50), Entry(k100, 100), Entry(k200, 200)>>,
                        ContentType |-> "application/json"])
        F[m \in 0..n] == IF m = 0 THEN st ELSE Written(m) @@ F[m - 1]
    IN  F[n]

\* C12: with the source objects fixed, an invocation that ends in done,
\* whatever the earlier deliveries of the batch did (completed, or aborted at
\* any step), leaves the destination bucket exactly as one run without
\* failure on an empty bucket leaves it: the same keys, each with the
\* content of its last write.
C12_RedeliveryHarmless ==
    pc = "done" => s3store = SingleRun(Len(event), <<>>)

\* a batch of two records completed after its previous delivery had aborted
\* with part of its output written
C12_Witness ==
    /\ pc = "done"
    /\ previous = "failed"
    /\ Len(event) = 2
    /\ event[1] # event[2]

\* the decoded key of record r
SourceKey(r) == decodeKey(event[r].s3.object.key).val

\* C13 as stated: two resolved writes to the same destination object come
\* from records with the same decoded source key.
C13_NoForeignOverwrite ==
    \A j \in Calls : \A k \in Calls :
        (/\ trace[j].kind = "putObject" /\ trace[j].status = "ok"
         /\ trace[k].kind = "putObject" /\ trace[k].status = "ok"
         /\ trace[j].Bucket = trace[k].Bucket
         /\ trace[j].Key = trace[k].Key)
            => SourceKey(trace[j].rec) = SourceKey(trace[k].rec)

\* for every record the fetch, the three variant writes and the manifest
\* write have resolved
AllSucceeded ==
    \A r \in 1..Len(event) :
        /\ \E j \in Calls : trace[j].kind = "getObject" /\ trace[j].rec = r
                            /\ trace[j].status = "ok"
        /\ \A size \in {50, 100, 200} :
            \E j \in Calls : IsVariantPut(trace[j]) /\ trace[j].rec = r
                             /\ trace[j].size = size /\ trace[j].status = "ok"
        /\ \E j \in Calls : IsManifestPut(trace[j]) /\ trace[j].rec = r
                            /\ trace[j].status = "ok"

\* the destination bucket holds what the four writes of every record wrote
HoldsAll ==
    \A r \in 1..Len(event) :
        /\ Len(PutsOf(r)) = 4
        /\ \A j \in 1..4 : <<DEST_BUCKET, PutsOf(r)[j].Key>> \in DOMAIN s3store

\* C14: when every awaited call is settled in the end, the invocation ends
\* in done or in failed; it has ended in done exactly when all steps of all
\* records succeeded, and then the destination holds the three variants and
\* the manifest of every record.
C14_Terminates ==
    /\ <>(pc \in {"done", "failed"})
    /\ [](pc \in {"done", "failed"} => (pc = "done" <=> AllSucceeded))
    /\ [](pc = "done" => HoldsAll)

\* a batch of two records ended in done
C14_Witness ==
    /\ pc = "done"
    /\ Len(event) = 2
    /\ AllSucceeded

\* the calls of any kind issued for record r, in the order of issue
CallsOf(r) == SelectSeq(trace, LAMBDA c : c.rec = r)

\* C16: every variant is written right after the resize of its size
\* resolved, under the key <base>-<size>x<size>.<format>, where base is the
\* base name of the fetched key and format is what that resize reported; the
\* extension of the destination key is that format, whatever the extension
\* of the source key.
C16_EncodedFormat ==
    \A j \in Calls :
        IsVariantPut(trace[j]) =>
            /\ j > 1
            /\ trace[j - 1].kind = "resize"
            /\ trace[j - 1].rec = trace[j].rec
            /\ trace[j - 1].size = trace[j].size
            /\ trace[j - 1].status = "ok"
            /\ LET src == GetsOf(trace[j].rec)[1].Key
                   fmt == trace[j - 1].result
               IN  /\ trace[j].Key = destKeyOf(pathParts(src)[1], trace[j].size, fmt)
                   /\ pathParts(trace[j].Key)[2] = fmt
                   /\ pathParts(src)[2] # fmt
                        => pathParts(trace[j].Key)[2] # pathParts(src)[2]

\* a variant of a ".png" key holding JPEG bytes stored as ".jpeg", and a
\* variant of a ".jpg" key stored as ".jpeg"
C16_Witness ==
    /\ \E j \in Calls :
        /\ IsVariantPut(trace[j]) /\ trace[j].status = "ok"
        /\ pathParts(GetsOf(trace[j].rec)[1].Key)[2] = <<"p", "n", "g">>
        /\ pathParts(trace[j].Key)[2] = <<"j", "p", "e", "g">>
        /\ <<trace[j].Bucket, trace[j].Key>> \in DOMAIN s3store
    /\ \E j \in Calls :
        /\ IsVariantPut(trace[j]) /\ trace[j].status = "ok"
        /\ pathParts(GetsOf(trace[j].rec)[1].Key)[2] = <<"j", "p", "g">>
        /\ pathParts(trace[j].Key)[2] = <<"j", "p", "e", "g">>

BucketsOf(rs) == {r \in rs : r.type = "AWS::S3::Bucket"}
FunctionsOf(rs) == {r \in rs : r.type = "AWS::Lambda::Function"}

\* C17: the resources of a constructed ThumbnailingBucket hold exactly two
\* buckets, named <source> and <source>-thumbs, and exactly two functions,
\* the resizer and the bucket-notifications handler; the resizer's
\* DEST_BUCKET is the name of the destination bucket.
C17_TwoBucketsTwoFunctions ==
    LET rs == resources.resources
    IN  /\ Cardinality(BucketsOf(rs)) = 2
        /\ {r.name : r \in BucketsOf(rs)} = {sourceBucket, sourceBucket \o "-thumbs"}
        /\ Cardinality(FunctionsOf(rs)) = 2
        /\ {r.id : r \in FunctionsOf(rs)} = {"resizer", "BucketNotificationsHandler"}
        /\ \A r \in FunctionsOf(rs) :
            r.id = "resizer" => r.DEST_BUCKET = sourceBucket \o "-thumbs"
        /\ rs = BucketsOf(rs) \cup FunctionsOf(rs)

\* the construct built for "blog-pictures", its resizer writing to the bucket
\* its configuration names
C17_Witness ==
    /\ sourceBucket = "blog-pictures"
    /\ \E r \in resources.resources :
        /\ r.id = "resizer"
        /\ r.DEST_BUCKET = "blog-pictures-thumbs"
        /\ DEST_BUCKET = r.DEST_BUCKET
    /\ \E r \in resources.resources : r.id = "destBucket" /\ r.name = "blog-pictures-thumbs"
    /\ Cardinality(resources.notifications) = 3
    /\ \E bk \in DOMAIN s3store : bk[1] = "blog-pictures-thumbs"

\* the body the fetch of record r resolved with
FetchedOf(r) == GetsOf(r)[1].result

\* C18: when the bytes fetched for a record are not a decodable image, the
\* first resize of the record rejects: the invocation fails with DecodeError
\* at that record, no putObject (variant or manifest) was issued for the
\* record, no later record is taken up, and no resize of the record resolved.
C18_UndecodableAborts ==
    \A r \in 1..Len(event) :
        (GetsOf(r) # <<>> /\ GetsOf(r)[1].status = "ok" /\ ~Decodable(FetchedOf(r))) =>
            /\ PutsOf(r) = <<>>
            /\ \A j \in Calls : trace[j].rec <= r
            /\ \A j \in Calls :
                (trace[j].kind = "resize" /\ trace[j].rec = r) =>
                    /\ trace[j].size = Sizes[1]
                    /\ trace[j].status \in {"pending", "failed"}
                    /\ j = Len(trace)
            /\ pc \in {"resize", "failed"}
            /\ pc = "failed" => error = "DecodeError" /\ i = r
            /\ i = r

\* the first record of a batch of two was fetched, is no image, and the
\* invocation has failed at it
C18_Witness ==
    /\ Len(event) = 2
    /\ pc = "failed" /\ error = "DecodeError" /\ i = 1
    /\ GetsOf(1)[1].result = "TEXT"
    /\ trace[Len(trace)].kind = "resize" /\ trace[Len(trace)].status = "failed"
    /\ PutsOf(1) = <<>>

\* C19 as stated: a variant write of a record is issued only after every
\* size of the record has been resized.
C19_Original ==
    \A j \in Calls :
        IsVariantPut(trace[j]) =>
            \A n \in 1..Len(Sizes) :
                \E k \in 1..(j - 1) :
                    /\ trace[k].kind = "resize" /\ trace[k].rec = trace[j].rec
                    /\ trace[k].size = Sizes[n] /\ trace[k].status = "ok"

\* the calls of one record in the order the handler issues them
StepPattern ==
    <<[kind |-> "getObject", size |-> 0]>>
    \o [n \in 1..(2 * Len(Sizes)) |->
            [kind |-> IF n % 2 = 1 THEN "resize" ELSE "putObject",
             size |-> Sizes[(n + 1) \div 2]]]
    \o <<[kind |-> "putObject", size |-> 0]>>

\* C19: the calls of a record are a prefix of Fetch, then Resize and Write
\* of each size in turn, then WriteManifest, each issued after the one before
\* it resolved; so when the resize of a size fails, the variants of exactly
\* the sizes before it have been written and stay in the destination.
C19_Interleaved ==
    \A r \in 1..Len(event) :
        LET c == CallsOf(r)
        IN  /\ Len(c) <= Len(StepPattern)
            /\ \A j \in 1..Len(c) :
                /\ c[j].kind = StepPattern[j].kind
                /\ c[j].size = StepPattern[j].size
                /\ j < Len(c) => c[j].status = "ok"
            /\ \A n \in 1..Len(Sizes) :
                (\E j \in 1..Len(c) : /\ c[j].kind = "resize" /\ c[j].size = Sizes[n]
                                      /\ c[j].status = "failed") =>
                    /\ Len(VariantPutsOf(r)) = n - 1
                    /\ \A m \in 1..(n - 1) :
                        /\ VariantPutsOf(r)[m].size = Sizes[m]
                        /\ <<VariantPutsOf(r)[m].Bucket, VariantPutsOf(r)[m].Key>>
                                \in DOMAIN s3store

\* the resize of size 100 failed after the variant of size 50 was written
C19_Witness ==
    /\ pc = "failed" /\ error = "ResizeError"
    /\ trace[Len(trace)].kind = "resize" /\ trace[Len(trace)].size = 100
    /\ Len(VariantPutsOf(i)) = 1
    /\ <<VariantPutsOf(i)[1].Bucket, VariantPutsOf(i)[1].Key>> \in DOMAIN s3store

\* the manifests in the buckets
Manifests == {bk \in DOMAIN s3store : s3store[bk].ContentType = "application/json"}

\* C20: every key listed by a manifest that is in the destination bucket is
\* the key of an object in that bucket, whatever two invocations running at
\* once have done so far and however either of them ended.
C20_ManifestKeysExist ==
    \A bk \in Manifests :
        \A n \in 1..Len(s3store[bk].Body) :
            /\ s3store[bk].Body[n][1] = "key"
            /\ <<bk[1], s3store[bk].Body[n][2]>> \in DOMAIN s3store

\* a manifest of three entries is in the destination, the other invocation
\* was aborted by a failed write after writing a variant, and this one is in
\* the middle of its writes
C20_Witness ==
    /\ \E bk \in Manifests : Len(s3store[bk].Body) = 3
    /\ parked.pc = "failed" /\ parked.error = "WriteError"
    /\ \E j \in 1..Len(parked.trace) :
        IsVariantPut(parked.trace[j]) /\ parked.trace[j].status = "ok"
    /\ pc = "putObject" /\ sz = 2

\* the raw key of record r cannot be decoded
Malformed(r) == ~decodeKey(event[r].s3.object.key).ok

\* C24: no call is ever issued for a record whose raw key is malformed, nor
\* for a record after it; when the loop reaches such a record the invocation
\* has failed there with URIError, and every record before it has its three
\* variants and its manifest written and still in the destination.
C24_MalformedKeyAborts ==
    \A r \in 1..Len(event) :
        Malformed(r) =>
            /\ \A j \in Calls : trace[j].rec < r
            /\ i <= r
            /\ i = r =>
                /\ pc = "failed" /\ error = "URIError"
                /\ \A q \in 1..(r - 1) :
                    /\ Len(PutsOf(q)) = Len(Sizes) + 1
                    /\ \A m \in 1..Len(PutsOf(q)) :
                        /\ PutsOf(q)[m].status = "ok"
                        /\ <<PutsOf(q)[m].Bucket, PutsOf(q)[m].Key>> \in DOMAIN s3store

\* the second record of a batch has the key "%.jpg": the invocation failed
\* at it after the first record's four objects were written
C24_Witness ==
    /\ Len(event) = 2
    /\ event[2].s3.object.key = <<"%", ".", "j", "p", "g">>
    /\ Malformed(2) /\ ~Malformed(1)
    /\ pc = "failed" /\ error = "URIError" /\ i = 2
    /\ Cardinality(DOMAIN s3store) = Len(Sizes) + 1
    /\ GetsOf(2) = <<>>

HasImageSuffix(k) ==
    \/ EndsWith(k, <<".", "j", "p", "g">>)
    \/ EndsWith(k, <<".", "j", "p", "e", "g">>)
    \/ EndsWith(k, <<".", "p", "n", "g">>)

\* C21: a created object has an event queued for the handler exactly when
\* it is in the source bucket and its key ends in ".jpg", ".jpeg" or ".png";
\* no object of the destination bucket has one; every queued event is
\* delivered or still waiting, and the event the handler runs on names the
\* source bucket and such a key.
C21_InvokedIffSuffix ==
    /\ \A c \in platform.created :
        /\ c.invoked <=> (c.bucket = sourceBucket /\ HasImageSuffix(c.key))
        /\ c.bucket = sourceBucket \o "-thumbs" => ~c.invoked
    /\ platform.invocations + Len(platform.queue) = platform.queued
    /\ \A n \in 1..Len(event) :
        /\ event[n].s3.bucket.name = sourceBucket
        /\ decodeKey(event[n].s3.object.key).ok
        /\ HasImageSuffix(decodeKey(event[n].s3.object.key).val)
        /\ [bucket |-> sourceBucket, key |-> decodeKey(event[n].s3.object.key).val,
            invoked |-> TRUE] \in platform.created

\* a.gif was uploaded and a.jpg too; only the latter invoked the handler,
\* whose variant a-50x50.jpeg in the destination bucket invoked nothing
C21_Witness ==
    /\ [bucket |-> sourceBucket, key |-> <<"a", ".", "g", "i", "f">>,
        invoked |-> FALSE] \in platform.created
    /\ [bucket |-> sourceBucket, key |-> <<"a", ".", "j", "p", "g">>,
        invoked |-> TRUE] \in platform.created
    /\ \E c \in platform.created :
        /\ c.bucket = "blog-pictures-thumbs"
        /\ HasImageSuffix(c.key)
        /\ ~c.invoked
    /\ platform.invocations = 1

\* C23: every putObject the handler issues names the configured destination
\* bucket, which is <source>-thumbs and not the source bucket; no object the
\* handler wrote is in the source bucket or matches a notification, the
\* destination bucket has no notification, no created object outside the
\* source bucket queued an event, and the events queued and the invocations
\* made never exceed the uploads to the source bucket.
C23_NoFeedback ==
    /\ DEST_BUCKET = sourceBucket \o "-thumbs"
    /\ DEST_BUCKET # sourceBucket
    /\ \A j \in Calls :
        trace[j].kind = "putObject" => trace[j].Bucket = DEST_BUCKET
    /\ \A bk \in DOMAIN s3store :
        /\ bk[1] = DEST_BUCKET
        /\ Triggers(bk[1], bk[2]) = {}
    /\ \A n \in resources.notifications : n.bucket = sourceBucket
    /\ \A c \in platform.created : c.invoked => c.bucket = sourceBucket
    /\ platform.queued <= platform.uploads
    /\ platform.invocations <= platform.uploads

\* two uploads, two invocations that ran to the end, their eight objects in
\* the destination bucket all seen by S3, and nothing left in the queue
C23_Witness ==
    /\ platform.uploads = 2 /\ platform.invocations = 2
    /\ platform.queue = <<>>
    /\ pc = "done"
    /\ Cardinality(DOMAIN s3store) = 2 * (Len(Sizes) + 1)
    /\ \A bk \in DOMAIN s3store :
        [bucket |-> bk[1], key |-> bk[2], invoked |-> FALSE] \in platform.created

\* C22: when both invocations for the same key have completed and their
\* fetches returned different versions of the source object, the variants
\* the manifest in the destination lists all hold images made from one and
\* the same version.
C22_OneVersion ==
    (/\ pc = "done" /\ parked.pc = "done"
     /\ trace[1].kind = "getObject" /\ parked.trace[1].kind = "getObject"
     /\ trace[1].result # parked.trace[1].result) =>
        \A bk \in Manifests :
            \A n, m \in 1..Len(s3store[bk].Body) :
                s3store[<<bk[1], s3store[bk].Body[n][2]>>].Body.image
                    = s3store[<<bk[1], s3store[bk].Body[m][2]>>].Body.image

====
